---- MODULE Spec2Model ----
(***************************************************************************)
(* A model of SPLINTER's BSpline::Builder (src/src/bspline_builder.cpp):   *)
(* the fit pipeline (argument checks, knot vectors, spline shell, basis    *)
(* matrix, regularisation, solver choice) as a step machine, and the       *)
(* second-order finite-difference matrix as the loops that build it.       *)
(*                                                                         *)
(* Matrices of the pipeline are modelled by their shape and by the         *)
(* expression that produced them (field "form"); the difference matrix is  *)
(* modelled entry by entry, as the sequence of D.insert(i,k) = v calls.    *)
(***************************************************************************)
EXTENDS Integers, Sequences, FiniteSets, TLC

VARIABLES
    dim_x,                \* Builder::_dim_x
    dim_y,                \* Builder::_dim_y
    degrees,              \* Builder::_degrees
    numBasisFunctions,    \* Builder::_numBasisFunctions
    knotSpacing,          \* Builder::_knotSpacing (its setter is not modelled)
    degreesSet,           \* history: the degree setter has been called
    pc,                   \* position of the fit call
    data,                 \* fit argument: the sample table
    smoothing,            \* fit argument
    alpha,                \* fit argument
    knotVectors,          \* fit local
    bspline,              \* fit local: the spline shell
    B,                    \* computeControlPoints local: basis function matrix
    A,                    \* computeControlPoints local: left-hand side
    b,                    \* computeControlPoints local: right-hand side
    W,                    \* computeControlPoints local: weight matrix
    D,                    \* computeControlPoints local: difference matrix
    x,                    \* computeControlPoints local: the solution
    numEquations,         \* computeControlPoints local
    solveAsDense,         \* computeControlPoints local
    solverLog,            \* history: the solver attempts, in order
    setControlPointsCalls,\* history: calls of bspline.setControlPoints
    result,               \* what fit returned
    error,                \* the exception fit raised
    plain                 \* history: outcome of the last fit under NONE

vars == <<dim_x, dim_y, degrees, numBasisFunctions, knotSpacing, degreesSet,
          pc, data, smoothing, alpha, knotVectors, bspline, B, A, b, W, D, x,
          numEquations, solveAsDense, solverLog, setControlPointsCalls,
          result, error, plain>>

builderVars == <<dim_x, dim_y, degrees, numBasisFunctions, knotSpacing, degreesSet>>
argVars == <<data, smoothing, alpha>>
matrixVars == <<B, A, b, W, D>>
solveVars == <<x, numEquations, solveAsDense, solverLog>>

-----------------------------------------------------------------------------
(* Bounds of the model *)

MaxDimX == 2        \* input dimensions of Builders and tables: 1..MaxDimX
MaxDimY == 2        \* output dimensions of Builders and tables: 1..MaxDimY
MaxDegree == 1      \* degrees a caller sets explicitly: 1..MaxDegree
MaxGrid == 10       \* largest number of distinct sample values per dimension
MaxNbf == 10        \* largest number of basis functions of a shell dimension
MaxVariablesD == 3  \* difference matrix alone: number of variables
MaxCountD == 5      \* difference matrix alone: basis functions per variable

(* Program constants *)

defaultDegree == 3      \* getBSplineDegrees(_dim_x, 3)
defaultNumBasis == 1    \* std::vector<unsigned int>(_dim_x, 1)
minBasisPerVariable == 3\* numBasisFunctions.at(i) < 3
maxNumEquations == 100  \* int maxNumEquations = 100
perColPerDim == 2       \* D.reserve(Constant(numCols, 2*numVariables))

-----------------------------------------------------------------------------
(* Helpers *)

RECURSIVE ProdRange(_, _, _)
\* product of s[lo..hi], 1 when the range is empty (int prod = 1; prod *= ...)
ProdRange(s, lo, hi) ==
    IF lo > hi THEN 1 ELSE s[lo] * ProdRange(s, lo + 1, hi)

\* the largest element of the sequence s
MaxOf(s) == CHOOSE m \in {s[i] : i \in 1..Len(s)} : \A i \in 1..Len(s) : s[i] <= m

Reverse(s) == [i \in 1..Len(s) |-> s[Len(s) + 1 - i]]

-----------------------------------------------------------------------------
(* The spline shell, as far as the Builder reads it *)

NoSolution == [by |-> "none", ok |-> FALSE, rows |-> 0, cols |-> 0]

NoSpline ==
    [built |-> FALSE, dimX |-> 0, dimY |-> 0, knots |-> <<>>, degrees |-> <<>>,
     numBasisFunctionsPerVariable |-> <<>>, controlPoints |-> NoSolution]

\* BSpline(dimX, dimY, knotVectors, degrees): counts[i] is the number of basis
\* functions the shell has in variable i (knot vector length - degree - 1)
BSplineShell(dx, dy, knots, degs, counts) ==
    [built |-> TRUE, dimX |-> dx, dimY |-> dy, knots |-> knots, degrees |-> degs,
     numBasisFunctionsPerVariable |-> counts, controlPoints |-> NoSolution]

\* bspline.getNumBasisFunctions(): the product of the per-variable counts
getNumBasisFunctions(s) ==
    ProdRange(s.numBasisFunctionsPerVariable, 1, Len(s.numBasisFunctionsPerVariable))

-----------------------------------------------------------------------------
(* getSecondOrderFiniteDifferenceMatrix, lines 219-315 *)

\* lines 228-232: the per-variable counts, reversed
DiffDims(s) == Reverse(s.numBasisFunctionsPerVariable)

\* a mutant check: none at all
DiffThrowsNever(s) == FALSE

\* a mutant check: <= for <
DiffThrowsInclusive(s) ==
    \E i \in 1..s.dimX : s.numBasisFunctionsPerVariable[i] <= minBasisPerVariable

\* lines 234-236: the check that throws
DiffThrows(s) ==
    \E i \in 1..s.dimX : s.numBasisFunctionsPerVariable[i] < minBasisPerVariable

\* lines 243-250: rows of block i (0-based), prod over j of dims[j] or dims[j]-2
RECURSIVE BlkRowsFrom(_, _, _)
BlkRowsFrom(dims, i, j) ==
    IF j >= Len(dims) THEN 1
    ELSE (IF i = j THEN dims[j + 1] - 2 ELSE dims[j + 1]) * BlkRowsFrom(dims, i, j + 1)

\* lines 239-253: numRows
RECURSIVE NumRowsFrom(_, _)
NumRowsFrom(dims, i) ==
    IF i >= Len(dims) THEN 0
    ELSE BlkRowsFrom(dims, i, 0) + NumRowsFrom(dims, i + 1)

\* lines 264-273
LeftProd(dims, d) == ProdRange(dims, 1, d)
RightProd(dims, d) == ProdRange(dims, d + 2, Len(dims))

\* the three inserts of one row: D.insert(i,k) = 1; k += leftProd;
\* D.insert(i,k) = -2; k += leftProd; D.insert(i,k) = 1  (lines 287-291, 300-304)
StencilOffByOne(i, k, leftProd) ==
    << <<i, k, 1>>, <<i, k + 1, -2>>, <<i, k + 2, 1>> >>

InsertStencil(i, k, leftProd) ==
    << <<i, k, 1>>, <<i, k + leftProd, -2>>, <<i, k + 2 * leftProd, 1>> >>

\* one row written: the three inserts, then i++ (lines 286-292, 299-305);
\* st = [i |-> row index, ins |-> the inserts so far]
WriteRow(st, k, leftProd) ==
    [i |-> st.i + 1, ins |-> st.ins \o InsertStencil(st.i, k, leftProd)]

\* The for loops below run their iterations lo, lo+1, .., hi-1 in order, each
\* on the state the one before left; the range is split in halves so that a
\* loop of n iterations nests only log n evaluations (the test first.i >= st.i
\* always holds: it makes TLC evaluate the first half before the second).

\* lines 297-306: the loop over n, iterations lo..hi-1
RECURSIVE IdentityLoop(_, _, _, _, _, _)
IdentityLoop(st, lo, hi, leftProd, blkBaseCol, l) ==
    IF lo >= hi THEN st
    ELSE IF hi = lo + 1 THEN WriteRow(st, blkBaseCol + l * leftProd + lo, leftProd)
    ELSE LET mid == (lo + hi) \div 2
             first == IdentityLoop(st, lo, mid, leftProd, blkBaseCol, l)
         IN  IF first.i >= st.i
             THEN IdentityLoop(first, mid, hi, leftProd, blkBaseCol, l)
             ELSE st

\* lines 283-307: the body of the loop over l
BlockRow(st, dims, d, j, l, leftProd) ==
    IF d = 0
    THEN WriteRow(st, j * leftProd * dims[d + 1] + l, leftProd)
    ELSE IdentityLoop(st, 0, leftProd, leftProd, j * leftProd * dims[d + 1], l)

\* lines 281-308: the loop over l, iterations lo..hi-1
RECURSIVE BlockRowLoop(_, _, _, _, _, _, _)
BlockRowLoop(st, lo, hi, dims, d, j, leftProd) ==
    IF lo >= hi THEN st
    ELSE IF hi = lo + 1 THEN BlockRow(st, dims, d, j, lo, leftProd)
    ELSE LET mid == (lo + hi) \div 2
             first == BlockRowLoop(st, lo, mid, dims, d, j, leftProd)
         IN  IF first.i >= st.i
             THEN BlockRowLoop(first, mid, hi, dims, d, j, leftProd)
             ELSE st

\* lines 276-309: the loop over the subblocks j, iterations lo..hi-1
RECURSIVE SubblockLoop(_, _, _, _, _)
SubblockLoop(st, lo, hi, dims, d) ==
    IF lo >= hi THEN st
    ELSE IF hi = lo + 1
         THEN BlockRowLoop(st, 0, dims[d + 1] - 2, dims, d, lo, LeftProd(dims, d))
    ELSE LET mid == (lo + hi) \div 2
             first == SubblockLoop(st, lo, mid, dims, d)
         IN  IF first.i >= st.i
             THEN SubblockLoop(first, mid, hi, dims, d)
             ELSE st

\* lines 261-310: the loop over the dimensions d, iterations lo..hi-1
RECURSIVE DimensionLoop(_, _, _, _)
DimensionLoop(st, lo, hi, dims) ==
    IF lo >= hi THEN st
    ELSE IF hi = lo + 1 THEN SubblockLoop(st, 0, RightProd(dims, lo), dims, lo)
    ELSE LET mid == (lo + hi) \div 2
             first == DimensionLoop(st, lo, mid, dims)
         IN  IF first.i >= st.i
             THEN DimensionLoop(first, mid, hi, dims)
             ELSE st

\* line 256: the shape of D
DiffShape(s) ==
    [rows |-> NumRowsFrom(DiffDims(s), 0), cols |-> getNumBasisFunctions(s), form |-> "D"]

\* line 257: the capacity reserved per column
DiffReserved(s) == perColPerDim * s.dimX

\* the matrix returned when the check does not throw: shape, reserve and inserts
getSecondOrderFiniteDifferenceMatrix(s) ==
    [rows |-> DiffShape(s).rows, cols |-> DiffShape(s).cols, form |-> "D",
     reserved |-> DiffReserved(s),
     inserts |-> DimensionLoop([i |-> 0, ins |-> <<>>], 0, s.dimX, DiffDims(s)).ins]

-----------------------------------------------------------------------------
(* Values of the pipeline *)

Smoothing == {"NONE", "IDENTITY", "PSPLINE"}
KnotSpacing == {"AS_SAMPLED", "EQUIDISTANT", "EXPERIMENTAL"}

\* the Exceptions of the pipeline, named by the place that throws them
DimensionMismatch == "DimensionMismatch"                  \* lines 37, 40
InvalidParameter == "InvalidParameter"                    \* line 43
InconsistentConfiguration == "InconsistentConfiguration"  \* line 321
InvalidConfiguration == "InvalidConfiguration"            \* line 236
SolveFailure == "SolveFailure"                            \* line 170
ValidationErrors ==
    {DimensionMismatch, InvalidParameter, InconsistentConfiguration, InvalidConfiguration}

NoMatrix == [rows |-> 0, cols |-> 0, form |-> "none"]
NoTable == [dimX |-> 0, dimY |-> 0, grid |-> <<>>, numSamples |-> 0]
NoPlain == [verdict |-> "none", basis |-> <<>>, data |-> NoTable, alpha |-> 0]

Built(m) == m.form # "none"

\* a mutant transpose: the matrix itself
NotTransposed(m, form) == [rows |-> m.rows, cols |-> m.cols, form |-> form]

\* Eigen shapes: transpose, product
Transpose(m, form) == [rows |-> m.cols, cols |-> m.rows, form |-> form]
Times(m, n, form) == [rows |-> m.rows, cols |-> n.cols, form |-> form]

\* getBSplineDegrees(numVariables, degree): one degree per variable
getBSplineDegrees(numVariables, degree) == [i \in 1..numVariables |-> degree]

-----------------------------------------------------------------------------
(* Inputs *)

GridChoices == {2, MaxGrid}
NbfChoices == {minBasisPerVariable - 1, minBasisPerVariable, MaxNbf}
AlphaChoices == {-1, 0, 1}

\* the numbers of samples of a table with grid g: the complete grid, or the
\* grid with one sample missing (every distinct value still sampled)
NumSamplesChoices(g) ==
    {n \in {ProdRange(g, 1, Len(g)) - 1, ProdRange(g, 1, Len(g))} :
        \A i \in 1..Len(g) : n >= g[i]}

\* a table: its dimensions, the number of distinct sample values per input
\* dimension (getTableX), and its number of samples
TablesOf(k) ==
    UNION {{[dimX |-> k, dimY |-> m, grid |-> g, numSamples |-> n] :
               m \in 1..MaxDimY, n \in NumSamplesChoices(g)} :
           g \in [1..k -> GridChoices]}

Tables == UNION {TablesOf(k) : k \in 1..MaxDimX}

\* the degree vectors a caller sets: any length, one degree throughout
DegreeSettings ==
    {[i \in 1..k |-> p] : k \in 1..MaxDimX, p \in 1..MaxDegree}

\* the per-variable basis function counts a shell of k variables can have
BasisChoices(k) == [1..k -> NbfChoices]

-----------------------------------------------------------------------------
(* Builder: construction and setters *)

Init ==
    /\ dim_x \in 1..MaxDimX
    /\ dim_y \in 1..MaxDimY
    /\ degrees = getBSplineDegrees(dim_x, defaultDegree)
    /\ numBasisFunctions = [i \in 1..dim_x |-> defaultNumBasis]
    /\ knotSpacing = "AS_SAMPLED"
    /\ degreesSet = FALSE
    /\ pc = "idle"
    /\ data = NoTable
    /\ smoothing = "NONE"
    /\ alpha = 0
    /\ knotVectors = <<>>
    /\ bspline = NoSpline
    /\ B = NoMatrix /\ A = NoMatrix /\ b = NoMatrix /\ W = NoMatrix /\ D = NoMatrix
    /\ x = NoSolution
    /\ numEquations = 0
    /\ solveAsDense = FALSE
    /\ solverLog = <<>>
    /\ setControlPointsCalls = 0
    /\ result = NoSpline
    /\ error = "none"
    /\ plain = NoPlain

callVars == <<pc, data, smoothing, alpha, knotVectors, bspline, B, A, b, W, D, x,
              numEquations, solveAsDense, solverLog, setControlPointsCalls,
              result, error>>

\* Builder::degree(degrees)
SetDegrees(ds) ==
    /\ pc = "idle"
    /\ degrees' = ds
    /\ degreesSet' = TRUE
    /\ plain' = NoPlain
    /\ UNCHANGED <<dim_x, dim_y, numBasisFunctions, knotSpacing>>
    /\ UNCHANGED callVars

-----------------------------------------------------------------------------
(* fit, lines 34-61 *)

Throw(e) == pc' = "failed" /\ error' = e

\* a caller calls fit(data, smoothing, alpha); while the outcome of a fit under
\* NONE is remembered, the calls are those with its table and its alpha
CallFit(t, s, a) ==
    /\ pc = "idle"
    /\ plain.verdict # "none" => t = plain.data /\ a = plain.alpha
    /\ pc' = "fit"
    /\ data' = t /\ smoothing' = s /\ alpha' = a
    /\ plain' = plain
    /\ UNCHANGED builderVars
    /\ UNCHANGED <<knotVectors, bspline, result, error, setControlPointsCalls>>
    /\ UNCHANGED matrixVars
    /\ UNCHANGED solveVars

\* a mutant order of the checks: alpha before the dimensions
ArgumentErrorAlphaFirst(t, a) ==
    IF a < 0 THEN InvalidParameter
    ELSE IF t.dimX # dim_x \/ t.dimY # dim_y THEN DimensionMismatch
    ELSE "none"

\* lines 36-43: the exception the checks raise, "none" when they pass
ArgumentError(t, a) ==
    IF t.dimX # dim_x THEN DimensionMismatch
    ELSE IF t.dimY # dim_y THEN DimensionMismatch
    ELSE IF a < 0 THEN InvalidParameter
    ELSE "none"

\* lines 36-43
CheckArguments ==
    /\ pc = "fit"
    /\ IF ArgumentError(data, alpha) # "none"
       THEN Throw(ArgumentError(data, alpha))
       ELSE pc' = "knots" /\ error' = error
    /\ UNCHANGED builderVars
    /\ UNCHANGED argVars
    /\ UNCHANGED <<knotVectors, bspline, result, setControlPointsCalls, plain>>
    /\ UNCHANGED matrixVars
    /\ UNCHANGED solveVars

\* lines 339-354: the strategy chosen, and the arguments handed to it
computeKnotVector(values, degree, nbf) ==
    CASE knotSpacing = "AS_SAMPLED" ->
             [by |-> "knotVectorMovingAverage", values |-> values, degree |-> degree, numBasisFunctions |-> 0]
      [] knotSpacing = "EQUIDISTANT" ->
             [by |-> "knotVectorEquidistant", values |-> values, degree |-> degree, numBasisFunctions |-> nbf]
      [] knotSpacing = "EXPERIMENTAL" ->
             [by |-> "knotVectorEquidistantNotClamped", values |-> values, degree |-> degree, numBasisFunctions |-> nbf]
      [] OTHER ->
             [by |-> "knotVectorMovingAverage", values |-> values, degree |-> degree, numBasisFunctions |-> 0]

\* line 51 and lines 318-336
ComputeKnotVectors ==
    /\ pc = "knots"
    /\ IF dim_x # Len(degrees)
       THEN Throw(InconsistentConfiguration) /\ knotVectors' = knotVectors
       ELSE /\ knotVectors' = [i \in 1..dim_x |->
                                  computeKnotVector(data.grid[i], degrees[i], numBasisFunctions[i])]
            /\ pc' = "shell"
            /\ error' = error
    /\ UNCHANGED builderVars
    /\ UNCHANGED argVars
    /\ UNCHANGED <<bspline, result, setControlPointsCalls, plain>>
    /\ UNCHANGED matrixVars
    /\ UNCHANGED solveVars

\* the degrees a mutant fit would hand to the shell: capped by the samples
ShellDegreesCapped ==
    [i \in 1..Len(degrees) |->
        IF i <= Len(data.grid) /\ data.grid[i] - 1 < degrees[i]
        THEN data.grid[i] - 1 ELSE degrees[i]]

\* line 54: the degrees handed to the shell are _degrees
ShellDegrees == degrees

\* line 54: the shell is built from the knot vectors; its basis function
\* counts are those the knot vectors give it, the same for the same table
\* and configuration
ConstructBSpline ==
    /\ pc = "shell"
    /\ \E counts \in BasisChoices(dim_x) :
          /\ plain.verdict = "accepted" => counts = plain.basis
          /\ bspline' = BSplineShell(dim_x, dim_y, knotVectors, ShellDegrees, counts)
    /\ pc' = "basis"
    /\ UNCHANGED builderVars
    /\ UNCHANGED argVars
    /\ UNCHANGED <<knotVectors, result, error, setControlPointsCalls, plain>>
    /\ UNCHANGED matrixVars
    /\ UNCHANGED solveVars

-----------------------------------------------------------------------------
(* computeControlPoints, lines 73-175 *)

\* lines 177-199: one row per sample, one column per basis function
computeBasisFunctionMatrix(s, t) ==
    [rows |-> t.numSamples, cols |-> getNumBasisFunctions(s), form |-> "B"]

\* lines 201-213: one row per sample, one column per output
stackSamplePointValues(t) ==
    [rows |-> t.numSamples, cols |-> t.dimY, form |-> "b"]

\* lines 78-79
ComputeBasisFunctionMatrix ==
    /\ pc = "basis"
    /\ B' = computeBasisFunctionMatrix(bspline, data)
    /\ A' = B'
    /\ pc' = "stack"
    /\ UNCHANGED builderVars
    /\ UNCHANGED argVars
    /\ UNCHANGED <<knotVectors, bspline, result, error, setControlPointsCalls, plain>>
    /\ UNCHANGED <<b, W, D>>
    /\ UNCHANGED solveVars

\* line 80
StackSamplePointValues ==
    /\ pc = "stack"
    /\ b' = stackSamplePointValues(data)
    /\ pc' = "smooth"
    /\ UNCHANGED builderVars
    /\ UNCHANGED argVars
    /\ UNCHANGED <<knotVectors, bspline, result, error, setControlPointsCalls, plain>>
    /\ UNCHANGED <<B, A, W, D>>
    /\ UNCHANGED solveVars

\* lines 82, 101: neither branch is taken
SmoothNone ==
    /\ pc = "smooth"
    /\ smoothing # "IDENTITY" /\ smoothing # "PSPLINE"
    /\ pc' = "select"
    /\ UNCHANGED builderVars
    /\ UNCHANGED argVars
    /\ UNCHANGED <<knotVectors, bspline, result, error, setControlPointsCalls, plain>>
    /\ UNCHANGED matrixVars
    /\ UNCHANGED solveVars

\* lines 82-100: A = Bt*B + alpha*I, b = Bt*b
SmoothIdentity ==
    /\ pc = "smooth"
    /\ smoothing = "IDENTITY"
    /\ LET Bt == Transpose(B, "Bt")
       IN /\ A' = Times(Bt, B, "Bt*B+alpha*I")
          /\ b' = Times(Bt, b, "Bt*b")
    /\ pc' = "select"
    /\ UNCHANGED builderVars
    /\ UNCHANGED argVars
    /\ UNCHANGED <<knotVectors, bspline, result, error, setControlPointsCalls, plain>>
    /\ UNCHANGED <<B, W, D>>
    /\ UNCHANGED solveVars

\* a mutant P-spline branch: the basis function counts are checked before the
\* weight matrix is built
SmoothPSplineChecksFirst ==
    /\ pc = "smooth"
    /\ smoothing # "IDENTITY" /\ smoothing = "PSPLINE"
    /\ IF DiffThrows(bspline)
       THEN /\ Throw(InvalidConfiguration)
            /\ UNCHANGED <<A, b, D, W>>
       ELSE /\ W' = [rows |-> data.numSamples, cols |-> data.numSamples, form |-> "W"]
            /\ D' = DiffShape(bspline)
            /\ LET Bt == Transpose(B, "Bt")
               IN /\ A' = Times(Times(Bt, W', "Bt*W"), B, "Bt*W*B+alpha*Dt*D")
                  /\ b' = Times(Times(Bt, W', "Bt*W"), b, "Bt*W*b")
            /\ pc' = "select"
            /\ error' = error
    /\ UNCHANGED builderVars
    /\ UNCHANGED argVars
    /\ UNCHANGED <<knotVectors, bspline, result, setControlPointsCalls, plain>>
    /\ UNCHANGED B
    /\ UNCHANGED solveVars

\* lines 101-138: W = I, D = getSecondOrderFiniteDifferenceMatrix(bspline),
\* A = Bt*W*B + alpha*Dt*D, b = Bt*W*b
SmoothPSpline ==
    /\ pc = "smooth"
    /\ smoothing # "IDENTITY" /\ smoothing = "PSPLINE"
    /\ W' = [rows |-> data.numSamples, cols |-> data.numSamples, form |-> "W"]
    /\ IF DiffThrows(bspline)
       THEN /\ Throw(InvalidConfiguration)
            /\ UNCHANGED <<A, b, D>>
       ELSE /\ D' = DiffShape(bspline)
            /\ LET Bt == Transpose(B, "Bt")
               IN /\ A' = Times(Times(Bt, W', "Bt*W"), B, "Bt*W*B+alpha*Dt*D")
                  /\ b' = Times(Times(Bt, W', "Bt*W"), b, "Bt*W*b")
            /\ pc' = "select"
            /\ error' = error
    /\ UNCHANGED builderVars
    /\ UNCHANGED argVars
    /\ UNCHANGED <<knotVectors, bspline, result, setControlPointsCalls, plain>>
    /\ UNCHANGED B
    /\ UNCHANGED solveVars

\* a mutant threshold test: <= for <
SolveAsDenseInclusive(n) == n <= maxNumEquations

\* line 144
SolveAsDense(n) == n < maxNumEquations

\* lines 140-146
SelectSolver ==
    /\ pc = "select"
    /\ numEquations' = A.rows
    /\ solveAsDense' = SolveAsDense(A.rows)
    /\ pc' = IF solveAsDense' THEN "dense" ELSE "sparse"
    /\ UNCHANGED builderVars
    /\ UNCHANGED argVars
    /\ UNCHANGED <<knotVectors, bspline, result, error, setControlPointsCalls, plain>>
    /\ UNCHANGED matrixVars
    /\ UNCHANGED <<x, solverLog>>

\* the solution a solver leaves in x: one row per column of A, one column per
\* column of b
Solution(solver, ok) == [by |-> solver, ok |-> ok, rows |-> A.cols, cols |-> b.cols]

\* lines 152-155: solveAsDense = !s.solve(A, b, x), SparseLU succeeds or fails
SolveSparse ==
    /\ pc = "sparse"
    /\ \E ok \in BOOLEAN :
          /\ solverLog' = Append(solverLog, [solver |-> "SparseLU", ok |-> ok])
          /\ x' = Solution("SparseLU", ok)
          /\ solveAsDense' = ~ok
          /\ pc' = IF solveAsDense' THEN "dense" ELSE "attach"
    /\ UNCHANGED builderVars
    /\ UNCHANGED argVars
    /\ UNCHANGED <<knotVectors, bspline, result, error, setControlPointsCalls, plain>>
    /\ UNCHANGED matrixVars
    /\ UNCHANGED numEquations

\* what a mutant does when the dense solve fails: it returns x all the same
DenseFailureIgnored == pc' = "attach" /\ error' = error

\* lines 168-171
DenseFailure == Throw(SolveFailure)

\* lines 158-172: DenseQR succeeds or fails
SolveDense ==
    /\ pc = "dense"
    /\ \E ok \in BOOLEAN :
          /\ solverLog' = Append(solverLog, [solver |-> "DenseQR", ok |-> ok])
          /\ x' = Solution("DenseQR", ok)
          /\ IF ~ok THEN DenseFailure
             ELSE pc' = "attach" /\ error' = error
    /\ UNCHANGED builderVars
    /\ UNCHANGED argVars
    /\ UNCHANGED <<knotVectors, bspline, result, setControlPointsCalls, plain>>
    /\ UNCHANGED matrixVars
    /\ UNCHANGED <<numEquations, solveAsDense>>

\* lines 57-60: the coefficients are attached and the spline is returned
SetControlPoints ==
    /\ pc = "attach"
    /\ bspline' = [bspline EXCEPT !.controlPoints = x]
    /\ setControlPointsCalls' = setControlPointsCalls + 1
    /\ result' = bspline'
    /\ pc' = "done"
    /\ UNCHANGED builderVars
    /\ UNCHANGED argVars
    /\ UNCHANGED <<knotVectors, error, plain>>
    /\ UNCHANGED matrixVars
    /\ UNCHANGED solveVars

\* the call is over (line 60, or an exception left fit): its locals are gone,
\* and the outcome of a fit under NONE is remembered
FitReturns ==
    /\ pc \in {"done", "failed"}
    /\ pc' = "idle"
    /\ plain' = IF smoothing = "NONE"
                THEN [verdict |-> IF error \in ValidationErrors THEN "rejected" ELSE "accepted",
                      basis |-> bspline.numBasisFunctionsPerVariable,
                      data |-> data, alpha |-> alpha]
                ELSE plain
    /\ data' = NoTable /\ smoothing' = "NONE" /\ alpha' = 0
    /\ knotVectors' = <<>>
    /\ bspline' = NoSpline
    /\ B' = NoMatrix /\ A' = NoMatrix /\ b' = NoMatrix /\ W' = NoMatrix /\ D' = NoMatrix
    /\ x' = NoSolution
    /\ numEquations' = 0
    /\ solveAsDense' = FALSE
    /\ solverLog' = <<>>
    /\ setControlPointsCalls' = 0
    /\ result' = NoSpline
    /\ error' = "none"
    /\ UNCHANGED builderVars

\* the caller turns to another table or alpha: the remembered outcome is dropped
ForgetPlain ==
    /\ pc = "idle"
    /\ plain.verdict # "none"
    /\ plain' = NoPlain
    /\ UNCHANGED builderVars
    /\ UNCHANGED callVars

Next ==
    \/ \E ds \in DegreeSettings : SetDegrees(ds)
    \/ \E t \in Tables, s \in Smoothing, a \in AlphaChoices : CallFit(t, s, a)
    \/ CheckArguments
    \/ ComputeKnotVectors
    \/ ConstructBSpline
    \/ ComputeBasisFunctionMatrix
    \/ StackSamplePointValues
    \/ SmoothNone
    \/ SmoothIdentity
    \/ SmoothPSpline
    \/ SelectSolver
    \/ SolveSparse
    \/ SolveDense
    \/ SetControlPoints
    \/ FitReturns
    \/ ForgetPlain

Spec == Init /\ [][Next]_vars

-----------------------------------------------------------------------------
(* The difference matrix alone: every shell of up to MaxVariablesD variables *)
(* with up to MaxCountD basis functions per variable                         *)

CountsD == UNION {[1..k -> 1..MaxCountD] : k \in 1..MaxVariablesD}

InitD ==
    /\ dim_x = 1 /\ dim_y = 1
    /\ degrees = getBSplineDegrees(dim_x, defaultDegree)
    /\ numBasisFunctions = [i \in 1..dim_x |-> defaultNumBasis]
    /\ knotSpacing = "AS_SAMPLED"
    /\ degreesSet = FALSE
    /\ pc = "diff"
    /\ data = NoTable
    /\ smoothing = "PSPLINE"
    /\ alpha = 0
    /\ knotVectors = <<>>
    /\ \E counts \in CountsD :
          bspline = BSplineShell(Len(counts), 1, <<>>, getBSplineDegrees(Len(counts), defaultDegree), counts)
    /\ B = NoMatrix /\ A = NoMatrix /\ b = NoMatrix /\ W = NoMatrix /\ D = NoMatrix
    /\ x = NoSolution
    /\ numEquations = 0
    /\ solveAsDense = FALSE
    /\ solverLog = <<>>
    /\ setControlPointsCalls = 0
    /\ result = NoSpline
    /\ error = "none"
    /\ plain = NoPlain

\* line 131, the whole of getSecondOrderFiniteDifferenceMatrix
SecondOrderFiniteDifferenceMatrix ==
    /\ pc = "diff"
    /\ IF DiffThrows(bspline)
       THEN pc' = "diffFailed" /\ error' = InvalidConfiguration /\ D' = D
       ELSE pc' = "diffDone" /\ error' = error /\ D' = getSecondOrderFiniteDifferenceMatrix(bspline)
    /\ UNCHANGED builderVars
    /\ UNCHANGED argVars
    /\ UNCHANGED <<knotVectors, bspline, result, setControlPointsCalls, plain>>
    /\ UNCHANGED <<B, A, b, W>>
    /\ UNCHANGED solveVars

NextD == SecondOrderFiniteDifferenceMatrix

SpecD == InitD /\ [][NextD]_vars

-----------------------------------------------------------------------------
(* Properties of fit *)

NothingComputed ==
    /\ knotVectors = <<>>
    /\ ~bspline.built
    /\ ~Built(B) /\ ~Built(A) /\ ~Built(b) /\ ~Built(W) /\ ~Built(D)
    /\ solverLog = <<>>

\* the argument checks of the call have run
ArgumentsChecked == pc \in {"knots", "shell", "basis", "stack", "smooth", "select",
                            "sparse", "dense", "attach", "done", "failed"}

\* the system has been handed to the solver choice
Selected ==
    \/ pc \in {"sparse", "dense", "attach", "done"}
    \/ pc = "failed" /\ error = SolveFailure

\* the solving is over
Solved ==
    \/ pc \in {"attach", "done"}
    \/ pc = "failed" /\ error = SolveFailure

Attempted(solver) == \E i \in 1..Len(solverLog) : solverLog[i].solver = solver

TooFewBasis(counts) == \E i \in 1..Len(counts) : counts[i] < 3

\* C1: a table whose input or output dimension differs from the Builder's
\* makes fit fail with DimensionMismatch, otherwise a negative alpha makes it
\* fail with InvalidParameter; in both cases nothing has been computed, and
\* the dimension mismatch takes precedence over the negative alpha
C1_ArgumentErrorsFirst ==
    ArgumentsChecked =>
        /\ (data.dimX # dim_x \/ data.dimY # dim_y) =>
               pc = "failed" /\ error = DimensionMismatch /\ NothingComputed
        /\ (data.dimX = dim_x /\ data.dimY = dim_y /\ alpha < 0) =>
               pc = "failed" /\ error = InvalidParameter /\ NothingComputed

C1_Witness ==
    /\ pc = "failed" /\ error = DimensionMismatch
    /\ data.dimX = dim_x /\ data.dimY # dim_y /\ alpha < 0

\* C2: once the argument and degree-count checks have passed, fit fails with
\* InvalidConfiguration if and only if the mode is PSPLINE and some input
\* dimension has fewer than 3 basis functions; under NONE and IDENTITY the
\* check is never made
C2_InvalidConfigurationIffPSplineTooFew ==
    /\ error = InvalidConfiguration =>
           pc = "failed" /\ bspline.built /\ smoothing = "PSPLINE"
    /\ (bspline.built /\ pc \in {"select", "sparse", "dense", "attach", "done", "failed"}) =>
           (error = InvalidConfiguration <=>
               (smoothing = "PSPLINE" /\ TooFewBasis(bspline.numBasisFunctionsPerVariable)))
    /\ smoothing \in {"NONE", "IDENTITY"} => ~Built(D) /\ error # InvalidConfiguration

C2_Witness ==
    /\ pc = "failed" /\ error = InvalidConfiguration /\ smoothing = "PSPLINE"
    /\ bspline.numBasisFunctionsPerVariable = <<MaxNbf, 2>>

\* C3: with fewer than 100 equations the dense solve is attempted and the
\* sparse one never; with 100 or more the sparse solve is attempted first and
\* the dense one afterwards if and only if the sparse attempt failed; each
\* solver is attempted at most once and sparse never follows dense
C3_SolvePathByEquationCount ==
    /\ Len(solverLog) <= 2
    /\ \A i, j \in 1..Len(solverLog) :
           i < j => solverLog[i].solver = "SparseLU" /\ solverLog[j].solver = "DenseQR"
    /\ solverLog # <<>> => Selected
    /\ (Selected /\ A.rows < 100) => ~Attempted("SparseLU")
    /\ (Selected /\ A.rows >= 100 /\ solverLog # <<>>) =>
           /\ solverLog[1].solver = "SparseLU"
           /\ Attempted("DenseQR") => ~solverLog[1].ok
    /\ (Solved /\ A.rows < 100) => Attempted("DenseQR")
    /\ (Solved /\ A.rows >= 100) =>
           /\ Attempted("SparseLU")
           /\ Attempted("DenseQR") <=> ~solverLog[1].ok

C3_Witness ==
    /\ pc = "done" /\ A.rows = 100
    /\ solverLog = <<[solver |-> "SparseLU", ok |-> FALSE], [solver |-> "DenseQR", ok |-> TRUE]>>

\* C4: fit fails with SolveFailure exactly when the dense solve is attempted
\* and fails; then setControlPoints is never called and no spline is
\* returned; whenever fit returns a spline, setControlPoints was called
\* exactly once, with the solution of the solver attempt that succeeded
C4_SolveFailureAndAttachment ==
    /\ error = SolveFailure <=>
           (solverLog # <<>> /\ solverLog[Len(solverLog)] = [solver |-> "DenseQR", ok |-> FALSE])
    /\ pc = "failed" => setControlPointsCalls = 0 /\ ~result.built
    /\ ~result.built => setControlPointsCalls = 0
    /\ result.built =>
           /\ pc = "done" /\ error = "none"
           /\ setControlPointsCalls = 1
           /\ result.controlPoints = x
           /\ x.ok
           /\ solverLog[Len(solverLog)] = [solver |-> x.by, ok |-> TRUE]

C4_Witness ==
    /\ pc = "failed" /\ error = SolveFailure
    /\ solverLog = <<[solver |-> "SparseLU", ok |-> FALSE], [solver |-> "DenseQR", ok |-> FALSE]>>

\* C6, as claimed: when fit ends in a validation error, no basis matrix, no
\* stacked output matrix and no regularisation matrix has been built
C6_NoMatrixBeforeValidationError ==
    error \in ValidationErrors =>
        ~Built(B) /\ ~Built(b) /\ ~Built(W) /\ ~Built(D) /\ ~Built(A)

\* C6, amended: DimensionMismatch, InvalidParameter and
\* InconsistentConfiguration are raised before any matrix is built;
\* InvalidConfiguration is raised when the basis matrix, the stacked output
\* matrix and the weight matrix have been built, and before the difference
\* matrix and the regularised system are built and before any solver attempt
C6_ValidationErrorsAndMatrices ==
    /\ error \in {DimensionMismatch, InvalidParameter, InconsistentConfiguration} =>
           ~Built(B) /\ ~Built(b) /\ ~Built(W) /\ ~Built(D) /\ ~Built(A)
    /\ error = InvalidConfiguration =>
           /\ Built(B) /\ Built(b) /\ Built(W)
           /\ ~Built(D) /\ A = B /\ b.form = "b"
           /\ solverLog = <<>>

C6_Witness ==
    /\ pc = "failed" /\ error = InvalidConfiguration
    /\ Built(B) /\ Built(b) /\ Built(W)

\* a fit under the mode of the call has ended, with alpha = 0, and the outcome
\* of the fit of the same table under NONE is known
ComparableWithPlain ==
    /\ pc \in {"done", "failed"}
    /\ alpha = 0
    /\ plain.verdict # "none"

\* C7, as claimed: with alpha = 0, a fit under IDENTITY or PSPLINE is rejected
\* with a validation error exactly when the fit under NONE is
C7_ModeNeverChangesAcceptance ==
    (ComparableWithPlain /\ smoothing \in {"IDENTITY", "PSPLINE"}) =>
        (error \in ValidationErrors <=> plain.verdict = "rejected")

\* C7, amended: with alpha = 0, a fit under IDENTITY is rejected with a
\* validation error exactly when the fit under NONE is; a fit under PSPLINE is
\* rejected exactly when the fit under NONE is or some input dimension has
\* fewer than 3 basis functions
C7_AcceptanceByMode ==
    /\ (ComparableWithPlain /\ smoothing = "IDENTITY") =>
           (error \in ValidationErrors <=> plain.verdict = "rejected")
    /\ (ComparableWithPlain /\ smoothing = "PSPLINE") =>
           (error \in ValidationErrors <=>
               (plain.verdict = "rejected" \/ TooFewBasis(plain.basis)))

C7_Witness ==
    /\ ComparableWithPlain /\ smoothing = "PSPLINE"
    /\ plain.verdict = "accepted" /\ error = InvalidConfiguration

\* the smaller of 3 and samples - 1
MinThreeSamples(samples) == IF samples - 1 < 3 THEN samples - 1 ELSE 3

C9_SystemIsSquare ==
    Selected =>
        /\ A.rows = getNumBasisFunctions(bspline) /\ A.cols = getNumBasisFunctions(bspline)
        /\ b.rows = getNumBasisFunctions(bspline) /\ b.cols = dim_y
        /\ numEquations = getNumBasisFunctions(bspline)

\* C9, amended: under IDENTITY and PSPLINE the system handed to the solver is
\* square, with as many rows as there are basis functions; under NONE it has
\* one row per sample and one column per basis function, and the equation
\* count is the number of samples
C9_SystemShapeByMode ==
    Selected =>
        /\ A.cols = getNumBasisFunctions(bspline) /\ b.cols = dim_y
        /\ b.rows = A.rows /\ numEquations = A.rows
        /\ smoothing \in {"IDENTITY", "PSPLINE"} => A.rows = getNumBasisFunctions(bspline)
        /\ smoothing = "NONE" => A.rows = data.numSamples

C9_Witness ==
    /\ Selected /\ smoothing = "NONE"
    /\ data.numSamples # getNumBasisFunctions(bspline)

-----------------------------------------------------------------------------
(* The reference second-difference operator, in the original variable order *)

\* stride of variable d: the product of the counts of the variables after d
RefStride(n, d) == ProdRange(n, d + 1, Len(n))

RECURSIVE RefFlatten(_, _, _)
\* flattened column of the multi-index idx, the last variable fastest
RefFlatten(n, idx, d) ==
    IF d > Len(n) THEN 0 ELSE idx[d] * RefStride(n, d) + RefFlatten(n, idx, d + 1)

\* the multi-indices at which a stencil along variable d starts
RefStarts(n, d) ==
    {idx \in [1..Len(n) -> 0..(MaxOf(n) - 1)] :
        \A j \in 1..Len(n) : idx[j] <= (IF j = d THEN n[j] - 3 ELSE n[j] - 1)}

RefStencil(n, d, idx) ==
    {<<RefFlatten(n, idx, 1), 1>>,
     <<RefFlatten(n, idx, 1) + RefStride(n, d), -2>>,
     <<RefFlatten(n, idx, 1) + 2 * RefStride(n, d), 1>>}

RefStencils(n) ==
    UNION {{RefStencil(n, d, idx) : idx \in RefStarts(n, d)} : d \in 1..Len(n)}

RECURSIVE RefRowCount(_, _)
\* sum over d of (n_d - 2) * product over j # d of n_j
RefRowCount(n, d) ==
    IF d > Len(n) THEN 0
    ELSE ProdRange(n, 1, d - 1) * (n[d] - 2) * ProdRange(n, d + 1, Len(n)) + RefRowCount(n, d + 1)

\* the entries (column, value) inserted for row r, the rows being written in
\* order, three inserts each
RowEntries(m, r) == {<<m.inserts[3 * r + q][2], m.inserts[3 * r + q][3]>> : q \in 1..3}

\* the number of entries inserted in column k
ColumnCount(m, k) == Cardinality({q \in 1..Len(m.inserts) : m.inserts[q][2] = k})

DiffCounts == bspline.numBasisFunctionsPerVariable

\* C5: for all per-variable counts >= 3 the difference matrix has
\* sum_d (n_d - 2) * prod_{j # d} n_j rows and prod_j n_j columns, and its rows
\* are exactly, each once, the stencils 1, -2, 1 of the reference operator at
\* columns base, base + stride_d, base + 2*stride_d, the last variable fastest;
\* for one variable with 5 basis functions these are the 3 rows
\* (i,1), (i+1,-2), (i+2,1), i = 0, 1, 2
C5_DifferenceMatrixIsReference ==
    pc = "diffDone" =>
        /\ \A d \in 1..Len(DiffCounts) : DiffCounts[d] >= 3
        /\ D.rows = RefRowCount(DiffCounts, 1)
        /\ D.cols = ProdRange(DiffCounts, 1, Len(DiffCounts))
        /\ Len(D.inserts) = 3 * D.rows
        /\ \A r \in 0..(D.rows - 1) : \A q \in 1..3 : D.inserts[3 * r + q][1] = r
        /\ \A q \in 1..Len(D.inserts) : D.inserts[q][2] \in 0..(D.cols - 1)
        /\ {RowEntries(D, r) : r \in 0..(D.rows - 1)} = RefStencils(DiffCounts)
        /\ Cardinality(RefStencils(DiffCounts)) = D.rows
        /\ DiffCounts = <<5>> =>
               D.inserts = << <<0, 0, 1>>, <<0, 1, -2>>, <<0, 2, 1>>,
                              <<1, 1, 1>>, <<1, 2, -2>>, <<1, 3, 1>>,
                              <<2, 2, 1>>, <<2, 3, -2>>, <<2, 4, 1>> >>

C5_Witness ==
    pc = "diffDone" /\ DiffCounts = <<3, 4, 5>> /\ D.rows = 20 + 30 + 36

\* C10: every column of the difference matrix holds at most 2 * dim_x
\* entries, the capacity reserved per column
C10_ColumnsWithinReserve ==
    pc = "diffDone" =>
        \A k \in 0..(D.cols - 1) : ColumnCount(D, k) <= D.reserved

====
